---- MODULE Spec2Model ----
(***************************************************************************)
(* State-machine model of the scraping crate.                              *)
(*                                                                         *)
(*   engine.rs          Engine: request channel, worker pool, get/post     *)
(*   lib.rs             BipClient: list_view / list_view_paged /           *)
(*                      detail_views                                       *)
(*   bin/parse_bip.rs   main: the form-driven crawl loop on top of the     *)
(*                      retry service and the item pipeline                *)
(*                                                                         *)
(*   scrapers/          Selector (links, form values), RetryLimit          *)
(*   parsing.rs         extract_and_strip                                  *)
(*                                                                         *)
(* Every subsystem has its own specification (SpecEngine, SpecBurst,       *)
(* SpecCancel, SpecLib, SpecMain, SpecForm, SpecLinks, SpecRetry,          *)
(* SpecText); the variables of the other subsystems stay at their idle     *)
(* values.                                                                 *)
(***************************************************************************)
EXTENDS Integers, Sequences, FiniteSets, TLC

VARIABLES
  \* ---- engine.rs
  callers,          \* the tasks that call Engine::get / Engine::post
  request_channel,  \* the unbounded mpsc channel of (Request, oneshot::Sender)
  running,          \* the futures for_each_concurrent is driving
  oneshot,          \* per caller: the value in the oneshot channel of its attempt
  epc,              \* per caller: position in get/post
  etry,             \* per caller: iterations of `for _ in 0..retries` started
  emethod,          \* per caller: "GET" (Engine::get) or "POST" (Engine::post)
  worker,           \* the task spawned by Engine::new: "running" or "panicked"
  faults,           \* failing exchanges the transport may still produce
  \* ---- lib.rs
  pages,            \* the server: number of result links of each list page
  lpc,              \* position of the BipClient crawl
  offset,           \* list_view: let mut offset
  links,            \* list_view: let mut links
  i_try,            \* list_view_paged: let mut i_try
  calls,            \* offsets list_view_paged was called with
  posts,            \* search POSTs sent
  retried,          \* `continue`s taken in list_view_paged
  attempts,         \* POSTs sent by the current call of list_view_paged
  lres,             \* what list_view returned: "none", "Ok", "Err"
  lerr,             \* the error list_view returned
  buffered,         \* detail_views: the futures held by buffered(PARALLEL_DOWNLOADS)
  out,              \* the items the detail_views stream has yielded
  \* ---- bin/parse_bip.rs
  overflow_checks,  \* the build: does usize arithmetic panic on overflow
  mpc,              \* the request main is about to make or is awaiting
  inflight,         \* requests sent to the transport and not yet answered
  remaining_tries,  \* RetryLimit of the call in progress
  form,             \* let mut form
  sel,              \* the Selector of the current list page
  nposts,           \* search POSTs handed to the service
  nlist,            \* list pages received and parsed
  dispatched,       \* detail links of the current page handed to the service
  delivered,        \* detail links whose item reached handle_item
  emitted,          \* records of the current page printed by handle_item
  mfailed,          \* Err items of the current page
  sawEmpty,         \* a list page without links has been parsed
  panicAt,          \* where the process panicked
  \* ---- form_values (engine.rs, scrapers/selector.rs)
  doc,              \* the parsed document: the nodes the form XPath matches
  fres,             \* what form_values returned
  \* ---- select_links / detail_links
  page,             \* the response links are extracted from
  lkres,            \* what the link extraction returned
  \* ---- the retry service (scrapers/retry.rs)
  rreq,             \* the request handed to svc.call
  rkept,            \* the clone Retry keeps for the next attempt
  rtries,           \* remaining_tries of the policy of this call
  rattempts,        \* exchanges made for this call
  rpc,              \* position of the call
  rresult,          \* what the call returned
  \* ---- extract_and_strip (parsing.rs)
  text,             \* the text of the selected node
  stripped          \* what the replacements gave, applied once and applied again

engineVars == <<callers, request_channel, running, oneshot, epc, etry, emethod, worker>>

libVars == <<pages, lpc, offset, links, i_try, calls, posts, retried, attempts, lres, lerr, buffered, out>>

mainVars == <<overflow_checks, mpc, inflight, remaining_tries, form, sel, nposts, nlist,
              dispatched, delivered, emitted, mfailed, sawEmpty, panicAt>>

formVars == <<doc, fres>>

linkVars == <<page, lkres>>

retryVars == <<rreq, rkept, rtries, rattempts, rpc, rresult>>

textVars == <<text, stripped>>

auxVars == <<formVars, linkVars, retryVars, textVars>>

vars == <<engineVars, faults, libVars, mainVars, auxVars>>

----------------------------------------------------------------------------
\* Bounds of the model
NCallers == 2       \* concurrent callers in SpecEngine
NBurst == 11        \* callers of the burst in SpecBurst
MaxFaults == 4      \* failing exchanges the transport produces in one run
MaxPages == 3       \* list pages the server holds
MaxLinks == 2       \* result links on one list page
MaxPosts == 3       \* search POSTs of one run of main
MaxForms == 2       \* nodes the form XPath matches
MaxNodes == 2       \* fields of one kind in a form
MaxOptions == 2     \* option children of a select
MaxHrefs == 2       \* nodes the link XPath matches
MaxBudget == 4      \* largest n of RetryLimit::new(n)
MaxText == 5        \* characters of a text that is stripped

\* Program constants
PoolLimit == 10     \* rv.for_each_concurrent(10, ...)
retries == 3        \* let retries: usize = 3;
n_retries == 3      \* let n_retries = 3;
PageSize == 100     \* offset += 100;
PARALLEL_DOWNLOADS == 1
RetryLimitNew == 3  \* .retry(RetryLimit::new(3))

Outcomes == {"ok", "transport", "status"}

----------------------------------------------------------------------------
\* engine.rs

\* request2body: execute(req)? ; error_for_status()? ; text()
Request2Body(outcome) == IF outcome = "ok" THEN "Ok" ELSE "Err"

\* for_each_concurrent(limit): a new future is started only below the limit
CanTakeOffByOne == Cardinality(running) <= PoolLimit
CanTake == Cardinality(running) < PoolLimit

\* One iteration of the loop of get/post up to `rx.await`: build the request,
\* make the oneshot channel, send (req, tx) on the request channel.
\* With the worker task gone the receiver of the channel is dropped: send
\* fails and `.expect("Channel communication failed")` panics.
SendAttempt(c, method) ==
  IF worker = "panicked"
    THEN /\ epc' = [epc EXCEPT ![c] = "panic"]
         /\ UNCHANGED <<request_channel, emethod, etry, oneshot>>
    ELSE /\ request_channel' = Append(request_channel, [caller |-> c, method |-> method, try |-> etry[c] + 1])
         /\ emethod' = [emethod EXCEPT ![c] = method]
         /\ etry' = [etry EXCEPT ![c] = @ + 1]
         /\ oneshot' = [oneshot EXCEPT ![c] = "empty"]
         /\ epc' = [epc EXCEPT ![c] = "rx"]

\* get: `url.into_url()?`, then the loop
EngineGet(c, valid) ==
  /\ epc[c] = "idle"
  /\ IF valid
       THEN SendAttempt(c, "GET")
       ELSE /\ epc' = [epc EXCEPT ![c] = "err"]
            /\ UNCHANGED <<request_channel, etry, oneshot, emethod>>
  /\ UNCHANGED <<callers, running, worker, faults, libVars, mainVars, auxVars>>

\* post: `url.into_url()?`, then the loop
EnginePost(c, valid) ==
  /\ epc[c] = "idle"
  /\ IF valid
       THEN SendAttempt(c, "POST")
       ELSE /\ epc' = [epc EXCEPT ![c] = "err"]
            /\ UNCHANGED <<request_channel, etry, oneshot, emethod>>
  /\ UNCHANGED <<callers, running, worker, faults, libVars, mainVars, auxVars>>

\* The burst: the callers of a burst are interchangeable, they are taken to
\* make their first send in index order.
BurstGet(c) ==
  /\ epc[c] = "idle"
  /\ \A d \in callers : d < c => epc[d] # "idle"
  /\ SendAttempt(c, "GET")
  /\ UNCHANGED <<callers, running, worker, faults, libVars, mainVars, auxVars>>

\* The worker task: for_each_concurrent pulls the next message off the stream
WorkerTake ==
  /\ worker = "running"
  /\ request_channel # <<>>
  /\ CanTake
  /\ running' = running \cup {Head(request_channel)}
  /\ request_channel' = Tail(request_channel)
  /\ UNCHANGED <<callers, oneshot, epc, etry, emethod, worker, faults, libVars, mainVars, auxVars>>

\* The message is (req, back_tx): back_tx is the Sender of the oneshot channel
\* whose Receiver the sending caller awaits
BackTxFirst(m) == 1
BackTx(m) == m.caller

\* oneshot::Sender::send fails when the Receiver was dropped with the future
\* of get/post
ReceiverDropped(c) == epc[c] = "dropped"

\* The worker's closure: request2body(req, client).await; back_tx.send(body)
\* When the caller has dropped its receiver, send returns Err and
\* `.expect("Failed sending to one-shot channel.")` panics: the task ends and
\* drops the stream, the queued messages and the futures it was driving.
WorkerFinish(m, outcome) ==
  /\ worker = "running"
  /\ m \in running
  /\ outcome # "ok" => faults > 0
  /\ faults' = IF outcome = "ok" THEN faults ELSE faults - 1
  /\ IF ReceiverDropped(m.caller)
       THEN /\ worker' = "panicked"
            /\ running' = {}
            /\ request_channel' = <<>>
            /\ UNCHANGED oneshot
       ELSE /\ oneshot' = [oneshot EXCEPT ![BackTx(m)] = Request2Body(outcome)]
            /\ running' = running \ {m}
            /\ UNCHANGED <<request_channel, worker>>
  /\ UNCHANGED <<callers, epc, etry, emethod, libVars, mainVars, auxVars>>

\* get/post after `rx.await`: Err -> continue (next iteration, or fall out of
\* the loop into unimplemented!()), Ok -> return Ok(Response)
\* With the sender dropped by the panicked worker rx.await is Err(Canceled)
\* and `.expect("Channel communication failed")` panics.
EngineRecv(c) ==
  /\ epc[c] = "rx"
  /\ oneshot[c] # "empty" \/ worker = "panicked"
  /\ IF oneshot[c] = "empty"
       THEN /\ epc' = [epc EXCEPT ![c] = "panic"]
            /\ UNCHANGED <<request_channel, etry, oneshot, emethod>>
       ELSE IF oneshot[c] = "Err"
         THEN IF etry[c] < retries
                THEN SendAttempt(c, emethod[c])
                ELSE /\ epc' = [epc EXCEPT ![c] = "panic"]
                     /\ UNCHANGED <<request_channel, etry, oneshot, emethod>>
         ELSE /\ epc' = [epc EXCEPT ![c] = "ok"]
              /\ UNCHANGED <<request_channel, etry, oneshot, emethod>>
  /\ UNCHANGED <<callers, running, worker, faults, libVars, mainVars, auxVars>>

\* Engine::new: the channel is empty, the worker task is spawned and idle
EngineNew(n, f) ==
  /\ faults = f
  /\ callers = 1..n
  /\ request_channel = <<>>
  /\ running = {}
  /\ oneshot = [c \in 1..n |-> "empty"]
  /\ epc = [c \in 1..n |-> "idle"]
  /\ etry = [c \in 1..n |-> 0]
  /\ emethod = [c \in 1..n |-> "GET"]
  /\ worker = "running"


\* The engine before Engine::new is ever called
EngineIdle ==
  /\ callers = {}
  /\ request_channel = <<>>
  /\ running = {}
  /\ oneshot = <<>>
  /\ epc = <<>>
  /\ etry = <<>>
  /\ emethod = <<>>
  /\ worker = "off"

\* The BipClient before BipClient::new is ever called
LibIdle ==
  /\ pages = <<>>
  /\ lpc = "off"
  /\ offset = 0
  /\ links = <<>>
  /\ i_try = 0
  /\ calls = <<>>
  /\ posts = 0
  /\ retried = 0
  /\ attempts = 0
  /\ lres = "none"
  /\ lerr = "none"
  /\ buffered = <<>>
  /\ out = <<>>

\* main before it runs
MainIdle ==
  /\ overflow_checks = FALSE
  /\ mpc = "off"
  /\ inflight = {}
  /\ remaining_tries = 0
  /\ form = <<>>
  /\ sel = [page |-> 0, links |-> <<>>, form |-> FALSE]
  /\ nposts = 0
  /\ nlist = 0
  /\ dispatched = <<>>
  /\ delivered = <<>>
  /\ emitted = 0
  /\ mfailed = 0
  /\ sawEmpty = FALSE
  /\ panicAt = "none"

\* form_values has not been called yet
FormPending == [ok |-> FALSE, form |-> 0, out |-> <<>>, err |-> "pending"]

\* select_links has not been called yet
LinksPending == [ok |-> FALSE, links |-> <<>>, err |-> "pending"]

\* nothing parsed, no link extracted, no call of the retry service
AuxIdle ==
  /\ doc = <<>>
  /\ fres = FormPending
  /\ page = "none"
  /\ lkres = LinksPending
  /\ rreq = "none"
  /\ rkept = "None"
  /\ rtries = 0
  /\ rattempts = 0
  /\ rpc = "off"
  /\ rresult = "none"
  /\ text = <<>>
  /\ stripped = <<>>

InitEngine == EngineNew(NCallers, MaxFaults) /\ LibIdle /\ MainIdle /\ AuxIdle

InitBurst == EngineNew(NBurst, 0) /\ LibIdle /\ MainIdle /\ AuxIdle

Worker ==
  \/ WorkerTake
  \/ \E m \in running, o \in Outcomes : WorkerFinish(m, o)

NextEngine ==
  \/ \E c \in callers, valid \in BOOLEAN : EngineGet(c, valid)
  \/ \E c \in callers, valid \in BOOLEAN : EnginePost(c, valid)
  \/ \E c \in callers : EngineRecv(c)
  \/ Worker

NextBurst ==
  \/ \E c \in callers : BurstGet(c)
  \/ \E c \in callers : EngineRecv(c)
  \/ Worker

SpecEngine == InitEngine /\ [][NextEngine]_vars

\* The tokio runtime polls the spawned worker task and the tasks of the
\* callers whenever they can make progress
SpecEngineFair ==
  /\ InitEngine
  /\ [][NextEngine]_vars
  /\ WF_vars(Worker)
  /\ \A c \in 1..NCallers : WF_vars(EngineRecv(c))

\* The caller drops the future of get/post while it waits on rx: the oneshot
\* Receiver is dropped; nothing is sent to the worker
Cancel(c) ==
  /\ epc[c] = "rx"
  /\ epc' = [epc EXCEPT ![c] = "dropped"]
  /\ UNCHANGED <<callers, request_channel, running, oneshot, etry, emethod, worker>>
  /\ UNCHANGED <<faults, libVars, mainVars, auxVars>>

NextCancel ==
  \/ \E c \in callers, valid \in BOOLEAN : EngineGet(c, valid)
  \/ \E c \in callers, valid \in BOOLEAN : EnginePost(c, valid)
  \/ \E c \in callers : EngineRecv(c)
  \/ Worker
  \/ \E c \in callers : Cancel(c)

SpecCancel == InitEngine /\ [][NextCancel]_vars

SpecBurst == InitBurst /\ [][NextBurst]_vars

----------------------------------------------------------------------------
\* lib.rs

\* The server's answer to a search POST with the parameter `offset`
ServerPage(o) ==
  LET i == (o \div PageSize) + 1
  IN  IF o % PageSize = 0 /\ i \in 1..Len(pages)
        THEN [k \in 1..pages[i] |-> <<o, k>>]
        ELSE <<>>

\* resp.cookies().count() of the response of the cookie landing page
CookieCount(outcome) == IF outcome = "cookie" THEN 1 ELSE 0

\* `if resp.cookies().count() == 0`
NoCookieNever(count) == FALSE
NoCookie(count) == count = 0

\* BipClient::new: GET COOKIE_LANDING, then `resp.cookies().count() == 0`
BipClientNew(outcome) ==
  /\ lpc = "new"
  /\ outcome = "transport" => faults > 0
  /\ faults' = IF outcome = "transport" THEN faults - 1 ELSE faults
  /\ lpc' = IF outcome = "transport" \/ NoCookie(CookieCount(outcome)) THEN "failed" ELSE "client"
  /\ lerr' = CASE outcome = "transport" -> "IoError"
              [] NoCookie(CookieCount(outcome)) -> "NoCookie"
              [] OTHER -> "none"
  /\ UNCHANGED <<pages, offset, links, i_try, calls, posts, retried, attempts, lres, buffered, out>>
  /\ UNCHANGED <<engineVars, mainVars, auxVars>>

\* detail_views, first poll of the stream: list_view starts and calls
\* list_view_paged(0, ..)
DetailViews ==
  /\ lpc = "client"
  /\ lpc' = "list"
  /\ links' = <<>>
  /\ offset' = 0
  /\ i_try' = 0
  /\ calls' = Append(calls, 0)
  /\ attempts' = 0
  /\ UNCHANGED <<pages, posts, retried, lres, lerr, buffered, out, faults>>
  /\ UNCHANGED <<engineVars, mainVars, auxVars>>

\* list_view: `if page_ids.is_empty() { break; }`
PageIsLastShort(page_ids) == Len(page_ids) <= 1
PageIsLast(page_ids) == page_ids = <<>>

\* list_view returns Err(e) through `?`; detail_views unwraps it
ListViewErr(e) ==
  /\ lres' = "Err"
  /\ lerr' = e
  /\ lpc' = "panic"
  /\ attempts' = attempts + 1
  /\ UNCHANGED <<offset, links, i_try, calls, retried>>

\* list_view after list_view_paged returned Ok(page_ids)
ListViewPage(page_ids) ==
  IF PageIsLast(page_ids)
    THEN /\ lres' = "Ok"
         /\ lpc' = "details"
         /\ attempts' = attempts + 1
         /\ UNCHANGED <<offset, links, i_try, calls, retried, lerr>>
    ELSE /\ links' = links \o page_ids
         /\ offset' = offset + PageSize
         /\ i_try' = 0
         /\ calls' = Append(calls, offset + PageSize)
         /\ attempts' = 0
         /\ UNCHANGED <<lpc, lres, lerr, retried>>

\* body.contains("Sie wurden vom System abgemeldet"), for the body of a 2xx
\* response: the logout page, a page detail_links cannot read, or a result
\* page; the logout page has no result table
ContainsMarkerNever(body) == FALSE
ContainsMarker(body) == body = "logout"

\* One pass of the loop of list_view_paged: POST, await the response, match
\* on error_for_status; on return, the rest of list_view up to its next POST.
ListAttempt(outcome) ==
  /\ lpc = "list"
  /\ outcome \in {"transport", "status", "body"} => faults > 0
  /\ faults' = IF outcome \in {"transport", "status", "body"} THEN faults - 1 ELSE faults
  /\ posts' = posts + 1
  /\ CASE outcome = "transport" -> ListViewErr("IoError:transport")
       [] outcome = "status" ->
            IF i_try < n_retries
              THEN /\ i_try' = i_try + 1
                   /\ retried' = retried + 1
                   /\ attempts' = attempts + 1
                   /\ UNCHANGED <<lpc, offset, links, calls, lres, lerr>>
              ELSE ListViewErr("IoError:status")
       [] outcome = "body" -> ListViewErr("IoError:body")
       [] outcome \in {"logout", "malformed", "page"} ->
            IF ContainsMarker(outcome)
              THEN ListViewErr("LoggedOut")
              ELSE IF outcome = "malformed"
                THEN ListViewErr("SelectionError")
                ELSE ListViewPage(IF outcome = "page" THEN ServerPage(offset) ELSE <<>>)
  /\ UNCHANGED <<pages, buffered, out>>
  /\ UNCHANGED <<engineVars, mainVars, auxVars>>

ListOutcomes == {"transport", "status", "body", "logout", "malformed", "page"}

\* detail_views: buffered(PARALLEL_DOWNLOADS) starts the GET of the next link
DetailStart ==
  /\ lpc = "details"
  /\ Len(buffered) < PARALLEL_DOWNLOADS
  /\ Len(out) + Len(buffered) < Len(links)
  /\ buffered' = Append(buffered, [link |-> links[Len(out) + Len(buffered) + 1], res |-> "pending"])
  /\ UNCHANGED <<pages, lpc, offset, links, i_try, calls, posts, retried, attempts, lres, lerr, out, faults>>
  /\ UNCHANGED <<engineVars, mainVars, auxVars>>

\* a detail GET completes: send().await?.text().await? (no status check)
DetailFinish(i, outcome) ==
  /\ lpc = "details"
  /\ i \in 1..Len(buffered)
  /\ buffered[i].res = "pending"
  /\ outcome # "ok" => faults > 0
  /\ faults' = IF outcome = "ok" THEN faults ELSE faults - 1
  /\ buffered' = [buffered EXCEPT ![i].res = IF outcome \in {"ok", "status"} THEN "Ok" ELSE "Err"]
  /\ UNCHANGED <<pages, lpc, offset, links, i_try, calls, posts, retried, attempts, lres, lerr, out>>
  /\ UNCHANGED <<engineVars, mainVars, auxVars>>

\* buffered yields the oldest future once it is complete; the stream ends
\* after the last one
DetailYield ==
  /\ lpc = "details"
  /\ IF buffered # <<>>
       THEN /\ Head(buffered).res # "pending"
            /\ out' = Append(out, Head(buffered))
            /\ buffered' = Tail(buffered)
            /\ UNCHANGED lpc
       ELSE /\ Len(out) = Len(links)
            /\ lpc' = "end"
            /\ UNCHANGED <<out, buffered>>
  /\ UNCHANGED <<pages, offset, links, i_try, calls, posts, retried, attempts, lres, lerr, faults>>
  /\ UNCHANGED <<engineVars, mainVars, auxVars>>

InitLib ==
  /\ EngineIdle
  /\ MainIdle
  /\ AuxIdle
  /\ faults = MaxFaults
  /\ pages \in [1..MaxPages -> 0..MaxLinks]
  /\ lpc = "new"
  /\ offset = 0
  /\ links = <<>>
  /\ i_try = 0
  /\ calls = <<>>
  /\ posts = 0
  /\ retried = 0
  /\ attempts = 0
  /\ lres = "none"
  /\ lerr = "none"
  /\ buffered = <<>>
  /\ out = <<>>

NextLib ==
  \/ \E o \in {"transport", "nocookie", "cookie"} : BipClientNew(o)
  \/ DetailViews
  \/ \E o \in ListOutcomes : ListAttempt(o)
  \/ DetailStart
  \/ \E i \in 1..PARALLEL_DOWNLOADS, o \in Outcomes : DetailFinish(i, o)
  \/ DetailYield

SpecLib == InitLib /\ [][NextLib]_vars

----------------------------------------------------------------------------
\* scrapers/retry.rs

\* RetryLimit::should_retry: `self.remaining_tries - 1` is evaluated first; on
\* 0 it panics in a build with overflow checks and wraps otherwise, and the
\* wrapped value is dropped by the `else` branch.
should_retry(rt) ==
  IF rt = 0
    THEN IF overflow_checks THEN "panic" ELSE "None"
    ELSE "Some"

\* RetryLimit::retry: a 2xx response ends retrying, anything else asks
\* should_retry
retry(rt, outcome) ==
  IF outcome = "ok" THEN "None" ELSE should_retry(rt)

----------------------------------------------------------------------------
\* bin/parse_bip.rs

\* sel.form_data("//form") of the list page `s`, then form.push(("method", m))
FormDataSubmit(s, m) == [from |-> s.page, method |-> "Suchen"]
FormData(s, m) == [from |-> s.page, method |-> m]

\* the form of the next iteration: re-extracted from the page just parsed
NextFormStale(s, old) == [from |-> old.from, method |-> ">"]
NextForm(s, old) == FormData(s, ">")

\* stream::iter(links).then(..): the link whose GET is made next
NextLinkReversed(ls, d) == ls[Len(ls) - Len(d)]
NextLink(ls, d) == ls[Len(d) + 1]

Panic(site) ==
  /\ mpc' = "panic"
  /\ panicAt' = site

\* main starts: the build is fixed, the service is made
InitMain ==
  /\ EngineIdle
  /\ LibIdle
  /\ AuxIdle
  /\ faults = 0
  /\ overflow_checks \in BOOLEAN
  /\ mpc = "cookie"
  /\ inflight = {}
  /\ remaining_tries = 0
  /\ form = <<>>
  /\ sel = [page |-> 0, links |-> <<>>, form |-> FALSE]
  /\ nposts = 0
  /\ nlist = 0
  /\ dispatched = <<>>
  /\ delivered = <<>>
  /\ emitted = 0
  /\ mfailed = 0
  /\ sawEmpty = FALSE
  /\ panicAt = "none"

\* svc.call(req): Retry::call keeps a clone of the request, takes a clone of
\* the policy and sends the request
MainCall ==
  /\ mpc \in {"cookie", "form", "list", "detail"}
  /\ inflight = {}
  /\ remaining_tries' = RetryLimitNew
  /\ CASE mpc = "cookie" ->
            /\ inflight' = {[kind |-> "cookie", page |-> 0, form |-> <<>>]}
            /\ UNCHANGED <<nposts, dispatched, delivered>>
       [] mpc = "form" ->
            /\ inflight' = {[kind |-> "form", page |-> 0, form |-> <<>>]}
            /\ UNCHANGED <<nposts, dispatched, delivered>>
       [] mpc = "list" ->
            /\ nposts < MaxPosts
            /\ nposts' = nposts + 1
            /\ inflight' = {[kind |-> "list", page |-> nposts + 1, form |-> form]}
            /\ dispatched' = <<>>
            /\ delivered' = <<>>
       [] mpc = "detail" ->
            /\ inflight' = {[kind |-> "detail", page |-> NextLink(sel.links, dispatched), form |-> <<>>]}
            /\ dispatched' = Append(dispatched, NextLink(sel.links, dispatched))
            /\ UNCHANGED <<nposts, delivered>>
  /\ UNCHANGED <<overflow_checks, mpc, form, sel, nlist, emitted, mfailed, sawEmpty, panicAt>>
  /\ UNCHANGED <<engineVars, faults, libVars, auxVars>>

\* after pipe_out: form = sel.form_data("//form").unwrap(); form.push(..)
EndOfPage(s) ==
  IF s.form
    THEN /\ form' = NextForm(s, form)
         /\ mpc' = "list"
         /\ UNCHANGED panicAt
    ELSE /\ Panic("form_data")
         /\ UNCHANGED form

\* main after svc.call(client.get(COOKIE_LANDING)).await
AfterCookie(result) ==
  /\ IF result = "Err"
       THEN Panic("cookie")
       ELSE /\ mpc' = "form"
            /\ UNCHANGED panicAt
  /\ UNCHANGED <<form, sel, nlist, delivered, emitted, mfailed, sawEmpty>>

\* main after svc.call(client.get(search_url)).await, up to the loop
AfterForm(result, content) ==
  /\ CASE result = "Err" -> Panic("search") /\ UNCHANGED form
       [] result = "Ok" /\ content.kind # "page" -> Panic("from_response") /\ UNCHANGED form
       [] result = "Ok" /\ content.kind = "page" /\ ~content.form -> Panic("form_data") /\ UNCHANGED form
       [] OTHER -> /\ form' = FormData([page |-> 0], "Suchen")
                   /\ mpc' = "list"
                   /\ UNCHANGED panicAt
  /\ UNCHANGED <<sel, nlist, delivered, emitted, mfailed, sawEmpty>>

\* main after svc.call(req).await of the loop: the page is parsed, its links
\* are selected; a page without links is piped out at once
AfterList(result, content) ==
  CASE result = "Err" ->
         /\ Panic("post")
         /\ UNCHANGED <<form, sel, nlist, delivered, emitted, mfailed, sawEmpty>>
    [] result = "Ok" /\ content.kind = "unreadable" ->
         /\ Panic("from_response")
         /\ UNCHANGED <<form, sel, nlist, delivered, emitted, mfailed, sawEmpty>>
    [] result = "Ok" /\ content.kind = "badlink" ->
         /\ Panic("select_links")
         /\ UNCHANGED <<form, sel, nlist, delivered, emitted, mfailed, sawEmpty>>
    [] OTHER ->
         LET s == [page |-> nlist + 1, links |-> content.links, form |-> content.form]
         IN  /\ sel' = s
             /\ nlist' = nlist + 1
             /\ UNCHANGED delivered
             /\ emitted' = 0
             /\ mfailed' = 0
             /\ IF s.links = <<>>
                  THEN /\ sawEmpty' = TRUE
                       /\ EndOfPage(s)
                  ELSE /\ mpc' = "detail"
                       /\ UNCHANGED <<form, sawEmpty, panicAt>>

\* one element of the stream: the result of the GET goes through and_then
\* (parse into a record), pipe_out hands the item to handle_item, which
\* unwraps it; after the last element the loop body goes on
AfterDetail(result, content) ==
  LET item == IF result = "Ok" /\ content.kind = "record" THEN "Ok" ELSE "Err"
      link == CHOOSE r \in inflight : TRUE
  IN  /\ delivered' = Append(delivered, link.page)
      /\ IF item = "Err"
           THEN /\ mfailed' = mfailed + 1
                /\ Panic("handle_item")
                /\ UNCHANGED <<form, emitted>>
           ELSE /\ emitted' = emitted + 1
                /\ UNCHANGED mfailed
                /\ IF Len(dispatched) < Len(sel.links)
                     THEN UNCHANGED <<mpc, form, panicAt>>
                     ELSE EndOfPage(sel)
      /\ UNCHANGED <<sel, nlist, sawEmpty>>

\* what a response body can hold
Contents(kind) ==
  CASE kind = "cookie" -> {[kind |-> "page"]}
    [] kind = "form" -> {[kind |-> "unreadable"]} \cup {[kind |-> "page", form |-> f] : f \in BOOLEAN}
    [] kind = "list" ->
         {[kind |-> "unreadable"], [kind |-> "badlink"]} \cup
         {[kind |-> "page", links |-> [i \in 1..n |-> i], form |-> f] : n \in 0..MaxLinks, f \in BOOLEAN}
    [] kind = "detail" -> {[kind |-> "record"], [kind |-> "parsefail"]}

\* An exchange ends. Retry's ResponseFuture asks the policy: retry with the
\* kept clone, or hand the result to main, which runs up to its next call.
MainResponse(outcome, content) ==
  /\ inflight # {}
  /\ LET r == CHOOSE x \in inflight : TRUE
         verdict == retry(remaining_tries, outcome)
         result == IF outcome = "transport" THEN "Err" ELSE "Ok"
     IN  /\ content \in Contents(r.kind)
         /\ CASE verdict = "Some" ->
                   /\ remaining_tries' = remaining_tries - 1
                   /\ UNCHANGED <<mpc, inflight, form, sel, nlist, delivered, emitted, mfailed, sawEmpty, panicAt>>
              [] verdict = "panic" ->
                   /\ Panic("should_retry")
                   /\ inflight' = {}
                   /\ UNCHANGED <<remaining_tries, form, sel, nlist, delivered, emitted, mfailed, sawEmpty>>
              [] verdict = "None" ->
                   /\ inflight' = {}
                   /\ UNCHANGED remaining_tries
                   /\ CASE r.kind = "cookie" -> AfterCookie(result)
                        [] r.kind = "form" -> AfterForm(result, content)
                        [] r.kind = "list" -> AfterList(result, content)
                        [] r.kind = "detail" -> AfterDetail(result, content)
  /\ UNCHANGED <<overflow_checks, nposts, dispatched>>
  /\ UNCHANGED <<engineVars, faults, libVars, auxVars>>

AllContents == UNION {Contents(k) : k \in {"cookie", "form", "list", "detail"}}

NextMain ==
  \/ MainCall
  \/ \E o \in Outcomes, b \in AllContents : MainResponse(o, b)

SpecMain == InitMain /\ [][NextMain]_vars

----------------------------------------------------------------------------
\* form_values (engine.rs, scrapers/selector.rs: the same code twice)

\* get_attribute gives None ("absent") or the text of the attribute; a
\* boolean attribute is written checked="checked", or minimised / checked=""
Flags(word) == {"absent", word, ""}

InputTypes == {"absent", "text", "hidden", "submit", "reset", "image", "radio", "checkbox"}

\* A field is named after its place in the document: (kind, form, position)
FullInputs ==
  [type : InputTypes, checked : Flags("checked"), disabled : Flags("disabled"),
   named : BOOLEAN, value : {"absent", "v"}]

SmallInputs ==
  {[type |-> t, checked |-> "absent", disabled |-> "absent", named |-> TRUE, value |-> "v"] :
     t \in {"text", "submit"}}

\* The value of option j is j: it is its value attribute when it has one
\* (value = "v"), and only its text otherwise
Options == [selected : Flags("selected"), value : {"absent", "v"}]

SeqUpTo(S, n) == UNION {[1..k -> S] : k \in 0..n}

FullSelects == [named : BOOLEAN, options : SeqUpTo(Options, MaxOptions)]

SmallSelects ==
  {[named |-> TRUE, options |-> <<[selected |-> "absent", value |-> "v"]>>],
   [named |-> TRUE, options |-> <<>>]}

Textareas == [named : BOOLEAN, content : {"", "t"}]

SmallTextareas == {[named |-> TRUE, content |-> "t"], [named |-> FALSE, content |-> "t"]}

\* The documents parsed: several small forms; one form with several fields of
\* each kind; one form with any one input; one form with any one select
Docs ==
  LET small == [inputs : SeqUpTo(SmallInputs, 1), selects : SeqUpTo(SmallSelects, 1),
                textareas : SeqUpTo(SmallTextareas, 1)]
      wide  == [inputs : SeqUpTo(SmallInputs, MaxNodes), selects : SeqUpTo(SmallSelects, MaxNodes),
                textareas : SeqUpTo(Textareas, MaxNodes)]
      input == [inputs : [1..1 -> FullInputs], selects : {<<>>}, textareas : {<<>>}]
      selct == [inputs : {<<>>}, selects : [1..1 -> FullSelects], textareas : {<<>>}]
  IN  [xpath_ok : {TRUE}, forms : SeqUpTo(small, MaxForms)]
        \cup [xpath_ok : BOOLEAN, forms : [1..1 -> wide \cup input \cup selct]]

\* out.push((name, value))
PushFront(o, name, value) == <<[name |-> name, value |-> value]>> \o o
Push(o, name, value) == Append(o, [name |-> name, value |-> value])

\* findnodes(form_xpath)?.pop(): the node taken out of the matches
Pop(matches) == Len(matches)

\* the body of `for node in form.findnodes("descendant::input")`
InputStep(o, f, i, node) ==
  IF node.type \in {"submit", "reset", "image"}
    THEN o
    ELSE IF node.type \in {"radio", "checkbox"} /\ node.checked # "checked"
      THEN o
      ELSE IF node.disabled = "disabled"
        THEN o
        ELSE IF node.named /\ node.value # "absent"
          THEN Push(o, <<"input", f, i>>, node.value)
          ELSE o

\* nodes.iter().filter(selected).chain(nodes.iter()).filter_map(value).next():
\* the option whose value is taken, 0 for None
SelectValue(options) ==
  LET all == [j \in 1..Len(options) |-> j]
      chain == SelectSeq(all, LAMBDA j : options[j].selected = "selected") \o all
      valued == SelectSeq(chain, LAMBDA j : options[j].value # "absent")
  IN  IF valued = <<>> THEN 0 ELSE Head(valued)

\* the body of `for node in form.findnodes("descendant::select")`
SelectStep(o, f, i, node) ==
  IF node.named
    THEN IF SelectValue(node.options) = 0
           THEN o
           ELSE Push(o, <<"select", f, i>>, SelectValue(node.options))
    ELSE o

\* the body of `for node in form.findnodes("descendant::textarea")`
TextareaStepNonEmpty(o, f, i, node) ==
  IF node.named /\ node.content # "" THEN Push(o, <<"textarea", f, i>>, node.content) ELSE o
TextareaStep(o, f, i, node) ==
  IF node.named THEN Push(o, <<"textarea", f, i>>, node.content) ELSE o

RECURSIVE InputLoop(_, _, _, _)
InputLoop(o, f, nodes, i) ==
  IF i > Len(nodes) THEN o ELSE InputLoop(InputStep(o, f, i, nodes[i]), f, nodes, i + 1)

RECURSIVE SelectLoop(_, _, _, _)
SelectLoop(o, f, nodes, i) ==
  IF i > Len(nodes) THEN o ELSE SelectLoop(SelectStep(o, f, i, nodes[i]), f, nodes, i + 1)

RECURSIVE TextareaLoop(_, _, _, _)
TextareaLoop(o, f, nodes, i) ==
  IF i > Len(nodes) THEN o ELSE TextareaLoop(TextareaStep(o, f, i, nodes[i]), f, nodes, i + 1)

form_values(d) ==
  IF ~d.xpath_ok
    THEN [ok |-> FALSE, form |-> 0, out |-> <<>>, err |-> "Invalid form XPath"]
    ELSE IF d.forms = <<>>
      THEN [ok |-> FALSE, form |-> 0, out |-> <<>>, err |-> "No form-node found"]
      ELSE LET f == Pop(d.forms)
               form_node == d.forms[f]
               inputs == InputLoop(<<>>, f, form_node.inputs, 1)
               selects == SelectLoop(inputs, f, form_node.selects, 1)
               textareas == TextareaLoop(selects, f, form_node.textareas, 1)
           IN  [ok |-> TRUE, form |-> f, out |-> textareas, err |-> "none"]

\* Response::extract_form_data / Selector::form_data
ExtractFormData ==
  /\ fres = FormPending
  /\ fres' = form_values(doc)
  /\ UNCHANGED <<doc, linkVars, retryVars, textVars>>
  /\ UNCHANGED <<engineVars, faults, libVars, mainVars>>

InitForm ==
  /\ EngineIdle
  /\ LibIdle
  /\ MainIdle
  /\ faults = 0
  /\ doc \in Docs
  /\ fres = FormPending
  /\ page = "none"
  /\ lkres = LinksPending
  /\ rreq = "none"
  /\ rkept = "None"
  /\ rtries = 0
  /\ rattempts = 0
  /\ rpc = "off"
  /\ rresult = "none"
  /\ text = <<>>
  /\ stripped = <<>>

SpecForm == InitForm /\ [][ExtractFormData]_vars

----------------------------------------------------------------------------
\* select_links (engine.rs, scrapers/selector.rs) and detail_links (lib.rs)

\* A URL is a host and a directory; the last path segment plays no part
BASE_URL == [host |-> "dipbt.bundestag.de", dir |-> <<>>]

Urls == [host : {"dipbt.bundestag.de", "elsewhere"}, dir : {<<>>, <<"dip21.web">>}]

\* The text of a matched node: a relative reference ("x"), a reference from
\* the root ("/x"), a full URL, or a text that no base can be joined with
Hrefs ==
  {[kind |-> "relative", to |-> BASE_URL], [kind |-> "rooted", to |-> BASE_URL],
   [kind |-> "invalid", to |-> BASE_URL]}
    \cup [kind : {"absolute"}, to : Urls]

\* Url::join: the directory of a link is a sequence of segments, its last
\* segment is the file "x" of the reference
Join(base, link) ==
  CASE link.kind = "relative" -> [ok |-> TRUE, host |-> base.host, dir |-> base.dir, file |-> "x"]
    [] link.kind = "rooted"   -> [ok |-> TRUE, host |-> base.host, dir |-> <<>>, file |-> "x"]
    [] link.kind = "absolute" -> [ok |-> TRUE, host |-> link.to.host, dir |-> link.to.dir, file |-> ""]
    [] link.kind = "invalid"  -> [ok |-> FALSE, host |-> "", dir |-> <<>>, file |-> ""]

\* The pages links are selected from: who selects, the URL requested, the URL
\* of the response after redirects, the XPath, the texts of the matched nodes
Pages ==
  [client : {"Response", "Selector"}, requested : Urls, final : Urls,
   xpath_ok : BOOLEAN, hrefs : SeqUpTo(Hrefs, MaxHrefs)]
    \cup [client : {"detail_links"}, requested : {[host |-> BASE_URL.host, dir |-> <<"dip21.web">>]},
          final : Urls, xpath_ok : {TRUE}, hrefs : SeqUpTo(Hrefs, MaxHrefs)]

\* The URL the links are joined with: Engine::get keeps the URL it was given
\* in Response.url, Selector::from_response takes response.url(), detail_links
\* parses BASE_URL
BaseUrl(p) ==
  CASE p.client = "Response" -> p.requested
    [] p.client = "Selector" -> p.final
    [] p.client = "detail_links" -> BASE_URL

\* the body of `for node in nodes`; `?` leaves the function with the error
LinkStepSkip(acc, base, node) ==
  IF ~acc.ok
    THEN acc
    ELSE IF Join(base, node).ok
      THEN [acc EXCEPT !.links = Append(@, Join(base, node))]
      ELSE acc
LinkStep(acc, base, node) ==
  IF ~acc.ok
    THEN acc
    ELSE IF Join(base, node).ok
      THEN [acc EXCEPT !.links = Append(@, Join(base, node))]
      ELSE [ok |-> FALSE, links |-> <<>>, err |-> "Invalid Url"]

RECURSIVE LinkLoop(_, _, _, _)
LinkLoop(acc, base, nodes, i) ==
  IF i > Len(nodes) THEN acc ELSE LinkLoop(LinkStep(acc, base, nodes[i]), base, nodes, i + 1)

select_links(p) ==
  IF ~p.xpath_ok
    THEN [ok |-> FALSE, links |-> <<>>, err |-> "Invalid XPath"]
    ELSE LinkLoop([ok |-> TRUE, links |-> <<>>, err |-> "none"], BaseUrl(p), p.hrefs, 1)

SelectLinks ==
  /\ lkres = LinksPending
  /\ lkres' = select_links(page)
  /\ UNCHANGED <<page, formVars, retryVars, textVars>>
  /\ UNCHANGED <<engineVars, faults, libVars, mainVars>>

InitLinks ==
  /\ EngineIdle
  /\ LibIdle
  /\ MainIdle
  /\ faults = 0
  /\ doc = <<>>
  /\ fres = FormPending
  /\ page \in Pages
  /\ lkres = LinksPending
  /\ rreq = "none"
  /\ rkept = "None"
  /\ rtries = 0
  /\ rattempts = 0
  /\ rpc = "off"
  /\ rresult = "none"
  /\ text = <<>>
  /\ stripped = <<>>

SpecLinks == InitLinks /\ [][SelectLinks]_vars

----------------------------------------------------------------------------
\* scrapers/retry.rs: RetryLimit as the policy of tower's Retry service, for
\* one call of the service (bin/parse_bip.rs builds it over RequestBuilder::send)

\* RetryLimit::clone_request: req.try_clone() is None for a streaming body
clone_request(req) == IF req.cloneable THEN "Some" ELSE "None"

\* svc.call(req): the policy is asked for a clone to keep, then the request
\* is sent
RetryCall ==
  /\ rpc = "ready"
  /\ rkept' = clone_request(rreq)
  /\ rattempts' = 1
  /\ rpc' = "called"
  /\ UNCHANGED <<rreq, rtries, rresult>>
  /\ UNCHANGED <<engineVars, faults, libVars, mainVars, formVars, linkVars, textVars>>

\* The exchange ends: with a clone kept the policy decides (RetryLimit::retry)
\* and the clone is sent with the policy should_retry made; without one the
\* result is the caller's
RetryResponse(outcome) ==
  /\ rpc = "called"
  /\ IF rkept = "Some" /\ retry(rtries, outcome) = "Some"
       THEN /\ rtries' = rtries - 1
            /\ rkept' = clone_request(rreq)
            /\ rattempts' = rattempts + 1
            /\ UNCHANGED <<rpc, rresult>>
       ELSE IF rkept = "Some" /\ retry(rtries, outcome) = "panic"
         THEN /\ rpc' = "panic"
              /\ UNCHANGED <<rkept, rtries, rattempts, rresult>>
         ELSE /\ rpc' = "done"
              /\ rresult' = outcome
              /\ UNCHANGED <<rkept, rtries, rattempts>>
  /\ UNCHANGED rreq
  /\ UNCHANGED <<engineVars, faults, libVars, mainVars, formVars, linkVars, textVars>>

InitRetry ==
  /\ EngineIdle
  /\ LibIdle
  /\ faults = 0
  /\ overflow_checks \in BOOLEAN
  /\ mpc = "off"
  /\ inflight = {}
  /\ remaining_tries = 0
  /\ form = <<>>
  /\ sel = [page |-> 0, links |-> <<>>, form |-> FALSE]
  /\ nposts = 0
  /\ nlist = 0
  /\ dispatched = <<>>
  /\ delivered = <<>>
  /\ emitted = 0
  /\ mfailed = 0
  /\ sawEmpty = FALSE
  /\ panicAt = "none"
  /\ doc = <<>>
  /\ fres = FormPending
  /\ page = "none"
  /\ lkres = LinksPending
  /\ rreq \in [cloneable : BOOLEAN]
  /\ rkept = "None"
  /\ rtries \in 0..MaxBudget
  /\ rattempts = 0
  /\ rpc = "ready"
  /\ rresult = "none"
  /\ text = <<>>
  /\ stripped = <<>>

NextRetry ==
  \/ RetryCall
  \/ \E outcome \in Outcomes : RetryResponse(outcome)

SpecRetry == InitRetry /\ [][NextRetry]_vars

----------------------------------------------------------------------------
\* parsing.rs: extract_and_strip

\* A text is a sequence of characters: space, tab, carriage return, form
\* feed, line break, and one ordinary character
Chars == {"sp", "tab", "cr", "ff", "lf", "a"}

\* the class [\t\v\f\r ] of re_whitespace, and \s of re_linebreaks
Horizontal == {"sp", "tab", "cr", "ff"}
Whitespace == {"sp", "tab", "cr", "ff", "lf"}

\* The end (exclusive) of the match of `[\t\v\f\r ]+` at i, 0 when it does
\* not match there: `+` is greedy and takes the whole run
RECURSIVE WhitespaceRun(_, _)
WhitespaceRun(s, i) ==
  IF i <= Len(s) /\ s[i] \in Horizontal THEN WhitespaceRun(s, i + 1) ELSE i

WhitespaceMatchPair(s, i) ==
  IF i <= Len(s) /\ s[i] \in Horizontal
    THEN IF i + 1 <= Len(s) /\ s[i + 1] \in Horizontal THEN i + 2 ELSE i + 1
    ELSE 0
WhitespaceMatch(s, i) ==
  IF i <= Len(s) /\ s[i] \in Horizontal THEN WhitespaceRun(s, i) ELSE 0

\* the longest that `\s*` can take from i
RECURSIVE SpaceRun(_, _)
SpaceRun(s, i) ==
  IF i <= Len(s) /\ s[i] \in Whitespace THEN SpaceRun(s, i + 1) ELSE i

\* The end (exclusive) of the match of `(\n\s*){2,}` at i, 0 when it does not
\* match there, found in the order of the regex: LinebreakGroup tries one
\* more `\n\s*` after n of them; LinebreakStar has `\s*` end at e, longest
\* first, prefers one more group, stops when n >= 2, gives a character back
\* otherwise
RECURSIVE LinebreakGroup(_, _, _)
RECURSIVE LinebreakStar(_, _, _, _)
LinebreakGroup(s, i, n) ==
  IF i <= Len(s) /\ s[i] = "lf"
    THEN LinebreakStar(s, i + 1, SpaceRun(s, i + 1), n + 1)
    ELSE 0

LinebreakStar(s, from, e, n) ==
  IF LinebreakGroup(s, e, n) # 0
    THEN LinebreakGroup(s, e, n)
    ELSE IF n >= 2
      THEN e
      ELSE IF e > from THEN LinebreakStar(s, from, e - 1, n) ELSE 0

LinebreakMatch(s, i) == LinebreakGroup(s, i, 0)

\* re_whitespace.replace_all(s, " "), from position i on
RECURSIVE ReplaceWhitespace(_, _)
ReplaceWhitespace(s, i) ==
  IF i > Len(s)
    THEN <<>>
    ELSE IF WhitespaceMatch(s, i) # 0
      THEN <<"sp">> \o ReplaceWhitespace(s, WhitespaceMatch(s, i))
      ELSE <<s[i]>> \o ReplaceWhitespace(s, i + 1)

\* re_linebreaks.replace_all(s, "\n\n"), from position i on
RECURSIVE ReplaceLinebreaks(_, _)
ReplaceLinebreaks(s, i) ==
  IF i > Len(s)
    THEN <<>>
    ELSE IF LinebreakMatch(s, i) # 0
      THEN <<"lf", "lf">> \o ReplaceLinebreaks(s, LinebreakMatch(s, i))
      ELSE <<s[i]>> \o ReplaceLinebreaks(s, i + 1)

\* re_linebreaks.replace_all(&re_whitespace.replace_all(.., " "), "\n\n")
strip(s) == ReplaceLinebreaks(ReplaceWhitespace(s, 1), 1)

\* extract_and_strip on the text of the one node selected, and then on its
\* own result
ExtractAndStrip ==
  /\ Len(stripped) < 2
  /\ stripped' = Append(stripped, strip(IF stripped = <<>> THEN text ELSE stripped[Len(stripped)]))
  /\ UNCHANGED <<text, formVars, linkVars, retryVars>>
  /\ UNCHANGED <<engineVars, faults, libVars, mainVars>>

InitText ==
  /\ EngineIdle
  /\ LibIdle
  /\ MainIdle
  /\ faults = 0
  /\ doc = <<>>
  /\ fres = FormPending
  /\ page = "none"
  /\ lkres = LinksPending
  /\ rreq = "none"
  /\ rkept = "None"
  /\ rtries = 0
  /\ rattempts = 0
  /\ rpc = "off"
  /\ rresult = "none"
  /\ text \in SeqUpTo(Chars, MaxText)
  /\ stripped = <<>>

SpecText == InitText /\ [][ExtractAndStrip]_vars

----------------------------------------------------------------------------
\* Properties

\* C1: a call of get/post whose attempts all failed hands an error value to
\* its caller: it does not end the process and does not return success.
C1_ExhaustionReturnsError ==
  \A c \in callers :
    /\ epc[c] # "panic"
    /\ (epc[c] \notin {"idle", "rx"} /\ oneshot[c] = "Err") => epc[c] = "err"

\* C2: with ceiling K = n_retries a call of list_view_paged never makes more
\* than K POSTs, and one whose attempts all failed on the status has made
\* exactly K when the error is returned.
C2_ExactlyKAttempts ==
  /\ attempts <= n_retries
  /\ lerr = "IoError:status" => attempts = n_retries

\* C3: a transport failure and a non-2xx status are both retried: neither is
\* returned to the caller of list_view_paged while retry budget remains.
C3_BothFailuresRetried ==
  lerr \in {"IoError:transport", "IoError:status"} => i_try = n_retries

\* C4: the worker never drives more than PoolLimit requests at once; the
\* requests beyond the bound wait in the channel.
C4_PoolBound ==
  /\ Cardinality(running) <= PoolLimit
  /\ \A m \in running : \A i \in 1..Len(request_channel) : request_channel[i] # m

C4_Witness ==
  /\ Cardinality(running) = PoolLimit
  /\ request_channel # <<>>

\* the number of non-empty pages the server holds before its first empty one
RECURSIVE LeadingPages(_)
LeadingPages(i) ==
  IF i \in 1..Len(pages) /\ pages[i] > 0 THEN LeadingPages(i + 1) ELSE i - 1

\* the links of the first k pages, in page order
RECURSIVE LinksOfPages(_)
LinksOfPages(k) ==
  IF k = 0 THEN <<>> ELSE LinksOfPages(k - 1) \o ServerPage((k - 1) * PageSize)

\* C5: list_view asks for the offsets 0, 100, 200, ... and never beyond the
\* first empty page; when it returns Ok it has asked for every page up to
\* the first empty one, once each apart from retries, and returns the links
\* of the pages before it in page order.
C5_ListViewPagination ==
  LET k == LeadingPages(1)
  IN  /\ calls = [i \in 1..Len(calls) |-> (i - 1) * PageSize]
      /\ Len(calls) <= k + 1
      /\ lres = "Ok" =>
            /\ Len(calls) = k + 1
            /\ posts = k + 1 + retried
            /\ links = LinksOfPages(k)

\* pages at 0 and 100, none at 200: three requests, the links of both pages
C5_Witness ==
  /\ lres = "Ok"
  /\ pages[1] > 0 /\ pages[2] > 0 /\ pages[3] = 0
  /\ retried = 0
  /\ calls = <<0, 100, 200>>
  /\ posts = 3
  /\ links = ServerPage(0) \o ServerPage(100)

\* C6: once a list page without links has been parsed the crawl is over: no
\* further search POST is made.
C6_EmptyPageEndsCrawl ==
  sawEmpty => \A r \in inflight : r.kind # "list"

\* C7: a page of N >= 2 links on which one detail page failed does not crash
\* the crawl in handle_item; when its fan-out is over the other N-1 records
\* have been emitted.
C7_DetailFailureSkipped ==
  (mfailed = 1 /\ Len(sel.links) >= 2) =>
    /\ panicAt # "handle_item"
    /\ Len(delivered) = Len(sel.links) => emitted = Len(sel.links) - 1

\* C8: a failure of a list page reaches the caller of the crawl as an error
\* value and ends the crawl in Error, not in a panic.
C8_ListFailureIsErrorValue ==
  lres = "Err" => lpc = "error"

\* C9: at most one search POST is in flight; POST N+1 is in flight only after
\* N pages were received and parsed, and carries the form extracted from
\* page N (page 0 being the search form fetched before the loop).
C9_ListPagesSequential ==
  /\ Cardinality({r \in inflight : r.kind = "list"}) <= 1
  /\ \A r \in inflight :
       r.kind = "list" => /\ r.page = nlist + 1
                          /\ r.form.from = nlist

C9_Witness ==
  \E r \in inflight : r.kind = "list" /\ r.page = 3 /\ r.form.method = ">"

\* C10: the items of one list page reach handle_item at most once each and
\* in the order of the extracted link list.
C10_DeliveredInDispatchOrder ==
  /\ Len(delivered) <= Len(dispatched)
  /\ \A i \in 1..Len(delivered) : delivered[i] = sel.links[i] /\ delivered[i] = dispatched[i]

C10_Witness ==
  /\ Len(sel.links) >= 2
  /\ Len(delivered) = Len(sel.links)
  /\ emitted = Len(sel.links)


\* The pairs form_values returned under one name, and the form it read
PairsNamed(n) == {k \in 1..Len(fres.out) : fres.out[k].name = n}
TheForm == doc.forms[fres.form]

\* C11: when the form locator matches several forms, the first one in document
\* order is used and every returned field comes from that first form.
\* (The code pops the last match.)
C11_FirstFormUsed ==
  fres.ok =>
    /\ fres.form = 1
    /\ \A k \in 1..Len(fres.out) : fres.out[k].name[2] = 1

\* C12: an input contributes a pair exactly when its type is not submit, reset
\* or image, a radio or checkbox carries a checked indicator in any form the
\* attribute can take, it carries no disabled indicator in any form, and it
\* has both a name and a value.
\* (The code only recognises checked="checked" and disabled="disabled".)
C12_InputContributes ==
  fres.ok =>
    \A i \in 1..Len(TheForm.inputs) :
      LET node == TheForm.inputs[i]
          qualifies ==
            /\ node.type \notin {"submit", "reset", "image"}
            /\ node.type \in {"radio", "checkbox"} => node.checked # "absent"
            /\ node.disabled = "absent"
            /\ node.named
            /\ node.value # "absent"
      IN  (PairsNamed(<<"input", fres.form, i>>) # {}) <=> qualifies

\* C13: a named select with at least one option contributes the value of its
\* first option flagged selected="selected", else of its first option; no other
\* option's value is chosen.
\* (The code passes over options that have no value attribute.)
C13_SelectValueChosen ==
  fres.ok =>
    \A i \in 1..Len(TheForm.selects) :
      LET node == TheForm.selects[i]
          flagged == {j \in 1..Len(node.options) : node.options[j].selected = "selected"}
          first == IF flagged # {}
                     THEN CHOOSE j \in flagged : \A l \in flagged : j <= l
                     ELSE 1
      IN  (node.named /\ node.options # <<>>) =>
            \A k \in PairsNamed(<<"select", fres.form, i>>) : fres.out[k].value = first

\* C14: a named select contributes exactly one pair when it has at least one
\* option and none exactly when it has no option; the extraction still succeeds.
\* (A select whose options all lack a value attribute contributes nothing.)
C14_SelectOnePair ==
  fres.ok =>
    \A i \in 1..Len(TheForm.selects) :
      LET node == TheForm.selects[i]
      IN  node.named =>
            Cardinality(PairsNamed(<<"select", fres.form, i>>)) =
              IF node.options # <<>> THEN 1 ELSE 0

\* C15: every named textarea contributes exactly one pair, its name with its
\* text content, also when the content is empty; an unnamed one contributes none.
C15_TextareaPair ==
  fres.ok =>
    \A i \in 1..Len(TheForm.textareas) :
      LET node == TheForm.textareas[i]
          at == PairsNamed(<<"textarea", fres.form, i>>)
      IN  IF node.named
            THEN /\ Cardinality(at) = 1
                 /\ \A k \in at : fres.out[k].value = node.content
            ELSE at = {}

C15_Witness ==
  /\ fres.ok
  /\ \E i \in 1..Len(TheForm.textareas) :
        /\ TheForm.textareas[i].named
        /\ TheForm.textareas[i].content = ""
  /\ \E i \in 1..Len(TheForm.textareas) : ~TheForm.textareas[i].named

\* The fields of the form read that contribute a pair, by name
Contributing ==
  {<<"input", fres.form, i>> : i \in {i \in 1..Len(TheForm.inputs) :
      InputStep(<<>>, fres.form, i, TheForm.inputs[i]) # <<>>}}
    \cup {<<"select", fres.form, i>> : i \in {i \in 1..Len(TheForm.selects) :
      SelectStep(<<>>, fres.form, i, TheForm.selects[i]) # <<>>}}
    \cup {<<"textarea", fres.form, i>> : i \in {i \in 1..Len(TheForm.textareas) :
      TextareaStep(<<>>, fres.form, i, TheForm.textareas[i]) # <<>>}}

\* inputs before selects before textareas, each kind in document order
Rank(kind) == CASE kind = "input" -> 1 [] kind = "select" -> 2 [] kind = "textarea" -> 3
Before(m, n) == Rank(m[1]) < Rank(n[1]) \/ (m[1] = n[1] /\ m[3] < n[3])

\* C16: the FieldSet is the input pairs, then the select pairs, then the
\* textarea pairs, each group in document order: nothing is reordered,
\* duplicated or dropped, and its length is the sum of the three groups.
C16_FieldOrder ==
  fres.ok =>
    /\ \A k, l \in 1..Len(fres.out) : k < l => Before(fres.out[k].name, fres.out[l].name)
    /\ {fres.out[k].name : k \in 1..Len(fres.out)} = Contributing
    /\ Len(fres.out) = Cardinality(Contributing)

C16_Witness ==
  /\ fres.ok
  /\ \E k \in 1..Len(fres.out) : fres.out[k].name[1] = "input"
  /\ Cardinality({k \in 1..Len(fres.out) : fres.out[k].name[1] = "select"}) >= 2
  /\ Cardinality({k \in 1..Len(fres.out) : fres.out[k].name[1] = "textarea"}) >= 2


\* C17: every link returned is absolute and resolved against the URL of the
\* response the document came from: after a redirect, against the redirect
\* target, never against the URL requested or a constant base.
\* (Engine::get keeps the requested URL; detail_links joins with BASE_URL.)
C17_ResolvedAgainstFinalUrl ==
  lkres.ok =>
    /\ Len(lkres.links) = Len(page.hrefs)
    /\ \A k \in 1..Len(lkres.links) : lkres.links[k] = Join(page.final, page.hrefs[k])

\* C18: link extraction is all-or-nothing: it fails, with no link, exactly
\* when the XPath is invalid or some matched text does not join to a valid
\* URL; otherwise it returns one link per matched node, and the empty list
\* when no node matches.
C18_AllOrNothing ==
  lkres.err # "pending" =>
    LET bad == {k \in 1..Len(page.hrefs) : page.hrefs[k].kind = "invalid"}
    IN  /\ lkres.ok <=> (page.xpath_ok /\ bad = {})
        /\ lkres.ok => Len(lkres.links) = Len(page.hrefs)
        /\ ~lkres.ok => lkres.links = <<>> /\ lkres.err \in {"Invalid XPath", "Invalid Url"}
        /\ (page.xpath_ok /\ page.hrefs = <<>>) => lkres.ok /\ lkres.links = <<>>

C18_Witness ==
  /\ lkres.err = "Invalid Url"
  /\ Len(page.hrefs) >= 2
  /\ page.hrefs[1].kind # "invalid"

C18_WitnessEmpty ==
  /\ lkres.ok
  /\ page.hrefs = <<>>


\* C19: a request whose body cannot be sent again (a streaming body, which
\* cannot be cloned) is rejected with RequestCloneError before any exchange;
\* it is never sent without retry protection.
\* (clone_request returns None and the request is sent once, unprotected;
\* RequestCloneError is never constructed.)
C19_NonCloneableRejected ==
  (rpc \in {"called", "done", "panic"} /\ ~rreq.cloneable) =>
    /\ rattempts = 0
    /\ rresult = "RequestCloneError"


\* C20: a list page answered 2xx with the logout marker in its body makes
\* list_view fail with LoggedOut: that request is not tried again, no link
\* of that body or of the pages before is returned, and the traversal stops
\* (no list POST and no detail GET follows).
C20_LogoutStopsCrawl ==
  [][/\ ListAttempt("logout") =>
          /\ lres' = "Err"
          /\ lerr' = "LoggedOut"
          /\ lpc' \notin {"list", "details"}
          /\ i_try' = i_try
          /\ retried' = retried
          /\ buffered' = <<>>
          /\ out' = <<>>
     /\ lerr = "LoggedOut" =>
          /\ posts' = posts
          /\ lerr' = lerr
          /\ lres' = lres
          /\ buffered' = <<>>
          /\ out' = <<>>]_vars

C20_Witness ==
  /\ lerr = "LoggedOut"
  /\ offset >= PageSize
  /\ links # <<>>
  /\ posts >= 2


\* C21: when the response of the cookie landing page sets no cookie,
\* BipClient::new fails with NoCookie and returns no client; without a
\* client no search POST and no detail GET is ever issued.
C21_NoCookieNoClient ==
  [][/\ BipClientNew("nocookie") => lpc' = "failed" /\ lerr' = "NoCookie"
     /\ lpc \in {"new", "failed"} =>
          /\ posts' = posts
          /\ calls' = calls
          /\ buffered' = buffered
          /\ out' = out
     /\ lpc = "failed" => lpc' = "failed"]_vars

C21_Witness ==
  /\ lpc = "failed"
  /\ lerr = "NoCookie"
  /\ posts = 0


\* C23: stripping is idempotent: for every text over space, tab, carriage
\* return, form feed, line break and an ordinary character, stripping the
\* stripped text gives the stripped text again.
C23_StripIdempotent ==
  Len(stripped) = 2 => stripped[2] = stripped[1]

\* a text both replacements change: a run of horizontal whitespace and a run
\* of line breaks with whitespace in between
C23_Witness ==
  /\ Len(stripped) = 2
  /\ ReplaceWhitespace(text, 1) # text
  /\ stripped[1] # ReplaceWhitespace(text, 1)
  /\ \E i \in 1..Len(text) - 2 : text[i] = "lf" /\ text[i + 1] \in Horizontal /\ text[i + 2] = "lf"
  /\ \E i \in 1..Len(text) - 1 : text[i] \in Horizontal /\ text[i + 1] \in Horizontal


\* C24: when a caller drops its get/post while the request is queued or in
\* flight, the worker abandons the request or completes it harmlessly: the
\* worker does not crash and no other caller is failed for it.
\* (The worker panics on back_tx.send(..).expect(..), and with it every
\* pending and later request.)
C24_CancelHarmless ==
  (\E c \in callers : epc[c] = "dropped") =>
    /\ worker = "running"
    /\ \A c \in callers : epc[c] = "panic" => (oneshot[c] = "Err" /\ etry[c] = retries)


\* C25: every search POST carries the form state of the response parsed
\* last plus one action parameter: the first POST the form of the initial
\* GET with method=Suchen, every later POST the form re-extracted from the
\* list page before it with method=>.
C25_FormActionParameter ==
  /\ \A r \in inflight :
       r.kind = "list" =>
         r.form = IF r.page = 1
                    THEN [from |-> 0, method |-> "Suchen"]
                    ELSE [from |-> r.page - 1, method |-> ">"]
  /\ (mpc = "list" /\ inflight = {}) =>
       form = IF nposts = 0
                THEN [from |-> 0, method |-> "Suchen"]
                ELSE [from |-> nposts, method |-> ">"]

C25_Witness ==
  \E r \in inflight :
    /\ r.kind = "list"
    /\ r.page = 2
    /\ r.form.method = ">"
    /\ sel.page = 1
    /\ sel.links # <<>>
    /\ emitted = Len(sel.links)


\* The messages of caller c that wait in the channel or are being executed
Queued(c) == {i \in 1..Len(request_channel) : request_channel[i].caller = c}
Executing(c) == {m \in running : m.caller = c}

\* Every attempt of a get/post has exactly one of: its message waiting, its
\* message being executed, its result in its oneshot channel
OneReplyPerAttempt ==
  \A c \in callers :
    /\ \A i \in Queued(c) : request_channel[i].try = etry[c]
    /\ \A m \in Executing(c) : m.try = etry[c]
    /\ epc[c] = "rx" =>
         Cardinality(Queued(c)) + Cardinality(Executing(c))
           + (IF oneshot[c] = "empty" THEN 0 ELSE 1) = 1
    /\ epc[c] # "rx" => Queued(c) = {} /\ Executing(c) = {}

\* C26: under every interleaving of concurrent callers each queued request
\* is executed once per attempt and its outcome is delivered once, to the
\* caller of that attempt and to no other; no reply is lost or duplicated,
\* and every caller that waits for a reply gets it and goes on.
C26_RepliesExactlyOnce ==
  /\ []OneReplyPerAttempt
  /\ \A c \in 1..NCallers :
       (epc[c] = "rx" /\ oneshot[c] = "empty") ~> (oneshot[c] # "empty")
  /\ \A c \in 1..NCallers : (epc[c] = "rx") ~> (epc[c] \in {"ok", "panic"})

C26_Witness ==
  /\ \A c \in callers : epc[c] = "rx" /\ etry[c] >= 2
  /\ \E c \in callers : oneshot[c] # "empty"
  /\ \E c \in callers : Executing(c) # {}


\* C27: for every budget K and every sequence of outcomes the counter of
\* RetryLimit stays within 0..K, a granted retry lowers it by exactly one,
\* counter 0 is terminal, and deciding on a failed outcome never subtracts
\* below zero: no underflow panic, no wrap-around.
\* (should_retry subtracts before it tests: at counter 0 a failed outcome
\* panics with overflow checks, and wraps without.)
C27_CounterNeverUnderflows ==
  /\ rtries \in 0..MaxBudget
  /\ rpc # "panic"

====
